---- MODULE Spec2Model ----
(***************************************************************************)
(* Model of the relay engine of tcpproxy (src/tcpproxy/tcpproxy.py):       *)
(* TCPProxy.serve, TCPProxyServer.set / shutDown / serveConnection /       *)
(* _handle_socket / _forward, together with the remote peers of the        *)
(* sockets (the environment).                                              *)
(*                                                                         *)
(* Every thread of the program is a process with a program counter that    *)
(* names the source line it is about to execute.  Payload bytes are        *)
(* labelled <<socket, index>>: the i-th byte a peer sends into socket s.   *)
(***************************************************************************)
EXTENDS Integers, Sequences, FiniteSets, TLC

\* ---- bounds of the model -------------------------------------------------
NumRoutes == 2      \* length of the configured route list
MaxConns  == 2      \* clients that ever connect, over all routes
MaxBytes  == 2      \* bytes the peers ever send, over all sockets
MaxAddrLen == 3     \* characters of a configured address string

\* ---- program constants ---------------------------------------------------
rxBufferSize == 65536

Routes == 1..NumRoutes
Conns  == 1..MaxConns
Sock   == Conns \X {"client", "server"}
Relays == Conns \X {"A", "B"}
NoSock == <<0, "none">>

client_socket(c) == <<c, "client">>
server_socket(c) == <<c, "server">>

VARIABLES
    cfg,        \* the run's inputs: length of proxyAttrList, clients, bytes
    serveIdx,   \* serve(): index of the next element of proxyAttrList
    served,     \* serve() has returned
    listeners,  \* the TCPProxyServer threads started by serve(), in order
    running,    \* TCPProxyServer._running, per listener
    lpc,        \* position of each listener thread in run()/serveConnection()
    cur,        \* connection whose client_socket/server_socket the listener holds
    err,        \* call whose exception took the listener to the except clause
    nConns,     \* clients accepted so far, over all routes
    connL,      \* listener that accepted each connection
    st,         \* per socket: "none", "open", "eof" (peer sent FIN), "reset"
    sent,       \* per socket: number of bytes the peer has sent into it
    rxlog,      \* per socket: bytes returned by recv() so far
    tx,         \* per socket: bytes written into it by sendall() so far
    nSent,      \* bytes sent by all peers
    rpc,        \* position of each relay thread in _forward()
    rsrc,       \* _forward's source argument
    rdst,       \* _forward's destination argument
    rdata,      \* _forward's local variable data
    rwhy,       \* how the relay left its loop: "", "flag", "raise"
    stopped,    \* history: shutDown() has been called on the listener
    stopAt,     \* history: where the listener was at a shutDown() made inside its accept loop
    afterAcc,   \* history: accepts completed after that shutDown()
    nAcc,       \* history: successful accepts per listener
    nAtt,       \* history: connect calls that returned or raised, per listener
    nOK,        \* history: successful connects per listener
    nRel,       \* history: relay threads started per listener
    bornStopped,\* history: the relay was started after shutDown()
    sendsAfter, \* history: chunks the relay forwarded after shutDown()
    attrList,   \* proxyAttrList: per route <<bind address, listen port, dest address, dest port>>
    bindAddress,\* TCPProxyServer._bindAddress, per listener
    listenPort, \* TCPProxyServer._listenPort
    destAddress,\* TCPProxyServer._destAddress
    destPort,   \* TCPProxyServer._destPort
    boundTo,    \* history: the <<address, port>> the listener passed to bind()
    connectedTo \* history: the <<address, port>> the listener last passed to connect()

lvars == <<running, lpc, cur, err>>
svars == <<cfg, serveIdx, served, listeners>>
cvars == <<nConns, connL>>
kvars == <<st, sent, rxlog, tx, nSent>>
rvars == <<rpc, rsrc, rdst, rdata, rwhy>>
hvars == <<stopped, stopAt, afterAcc, nAcc, nAtt, nOK, nRel, bornStopped, sendsAfter>>
avars == <<attrList, bindAddress, listenPort, destAddress, destPort, boundTo, connectedTo>>
vars  == <<lvars, svars, cvars, kvars, rvars, hvars, avars>>

\* Address strings are sequences of characters; every character other than
\* the slash is written "0"
Chars == {"0", "/"}
Strs == UNION { [1..k -> Chars] : k \in 0..MaxAddrLen }
Ports == {1, 65535}
NoAddr == <<>>

\* ProxyConfig.BIND_ALL_ADDRESS, "0.0.0.0/32"
BIND_ALL_ADDRESS == <<"0", "/", "0">>

\* The route list used when the addresses are not what a run is about: every
\* route binds to BIND_ALL_ADDRESS and forwards to a plain address
proxyAttrList == [l \in Routes |-> <<BIND_ALL_ADDRESS, l, <<"0">>, l>>]

Min(a, b) == IF a < b THEN a ELSE b

IsPrefix(p, s) == Len(p) <= Len(s) /\ SubSeq(s, 1, Len(p)) = p

\* The runs explored.  The route list, the clients that connect, the bytes the
\* peers send, whether socket calls of the listener fail (faults), whether
\* peers close or reset their connections (hangups) and whether shutDown() is
\* called (stops) are inputs of the program.
Scenarios ==
    { \* one connection carrying traffic, everything can go wrong
      [routes |-> 1, conns |-> 1, bytes |-> MaxBytes,
       faults |-> TRUE, hangups |-> TRUE, stops |-> TRUE],
      \* several clients on one route, with failures and shutDown()
      [routes |-> 1, conns |-> MaxConns, bytes |-> 0,
       faults |-> TRUE, hangups |-> FALSE, stops |-> TRUE],
      \* several routes, shutDown() called on any of them
      [routes |-> NumRoutes, conns |-> 1, bytes |-> 0,
       faults |-> FALSE, hangups |-> FALSE, stops |-> TRUE],
      \* several routes, any of them failing
      [routes |-> NumRoutes, conns |-> 1, bytes |-> 0,
       faults |-> TRUE, hangups |-> FALSE, stops |-> FALSE],
      \* several connections on one route carrying traffic concurrently
      [routes |-> 1, conns |-> MaxConns, bytes |-> MaxBytes,
       faults |-> FALSE, hangups |-> FALSE, stops |-> FALSE],
      \* two connections on two routes carrying traffic concurrently
      [routes |-> 2, conns |-> 2, bytes |-> 2,
       faults |-> FALSE, hangups |-> FALSE, stops |-> FALSE] }


\* pcs of serveConnection that lie inside "while self._running:" (lines 275-280)
LoopPcs == {"outer", "listen", "inner", "accept", "connect", "startA", "startB"}

InitRest ==
    /\ serveIdx = 1
    /\ served = FALSE
    /\ listeners = <<>>
    /\ running = [l \in Routes |-> FALSE]
    /\ lpc = [l \in Routes |-> "none"]
    /\ cur = [l \in Routes |-> 0]
    /\ err = [l \in Routes |-> "none"]
    /\ nConns = 0
    /\ connL = [c \in Conns |-> 0]
    /\ st = [s \in Sock |-> "none"]
    /\ sent = [s \in Sock |-> 0]
    /\ rxlog = [s \in Sock |-> <<>>]
    /\ tx = [s \in Sock |-> <<>>]
    /\ nSent = 0
    /\ rpc = [r \in Relays |-> "none"]
    /\ rsrc = [r \in Relays |-> NoSock]
    /\ rdst = [r \in Relays |-> NoSock]
    /\ rdata = [r \in Relays |-> <<>>]
    /\ rwhy = [r \in Relays |-> ""]
    /\ stopped = [l \in Routes |-> FALSE]
    /\ stopAt = [l \in Routes |-> "none"]
    /\ afterAcc = [l \in Routes |-> 0]
    /\ nAcc = [l \in Routes |-> 0]
    /\ nAtt = [l \in Routes |-> 0]
    /\ nOK = [l \in Routes |-> 0]
    /\ nRel = [l \in Routes |-> 0]
    /\ bornStopped = [r \in Relays |-> FALSE]
    /\ sendsAfter = [r \in Relays |-> 0]
    /\ bindAddress = [l \in Routes |-> NoAddr]
    /\ listenPort = [l \in Routes |-> 0]
    /\ destAddress = [l \in Routes |-> NoAddr]
    /\ destPort = [l \in Routes |-> 0]
    /\ boundTo = [l \in Routes |-> NoAddr]
    /\ connectedTo = [l \in Routes |-> NoAddr]

Init ==
    /\ cfg \in Scenarios
    /\ attrList = proxyAttrList
    /\ InitRest

\* ---- TCPProxyServer.set (lines 229-248) ----------------------------------

\* str.find("/"): index from 0 of the first slash, -1 when there is none
find(a) ==
    IF \E i \in 1..Len(a) : a[i] = "/"
    THEN (CHOOSE i \in 1..Len(a) : a[i] = "/" /\ \A j \in 1..(i - 1) : a[j] # "/") - 1
    ELSE -1

\* str.split("/")[0]: the characters before the first slash
RECURSIVE split_head(_)
split_head(a) ==
    IF a = <<>> THEN <<>>
    ELSE IF Head(a) = "/" THEN <<>>
    ELSE <<Head(a)>> \o split_head(Tail(a))

\* lines 239-241 and 243-245: the address kept from an element of attrList
set_address(a) == IF find(a) > 0 THEN split_head(a) ELSE a

\* lines 239-246: the fields set() takes from attrList
set_fields(l) ==
    /\ bindAddress' = [bindAddress EXCEPT ![l] = set_address(attrList[l][1])]
    /\ listenPort' = [listenPort EXCEPT ![l] = attrList[l][2]]
    /\ destAddress' = [destAddress EXCEPT ![l] = set_address(attrList[l][3])]
    /\ destPort' = [destPort EXCEPT ![l] = attrList[l][4]]

\* ---- TCPProxy.serve (lines 323-334) --------------------------------------

\* TCPProxyServer.set (lines 229-248): the value given to _running
set_running == FALSE

\* Mutant of ServeStart: serve() joins each listener thread before it starts
\* the next one.
ServeStart_join ==
    /\ ~served
    /\ serveIdx <= cfg.routes
    /\ \A l \in Routes : l = serveIdx - 1 => lpc[l] = "done"
    /\ running' = [running EXCEPT ![serveIdx] = set_running]
    /\ lpc' = [lpc EXCEPT ![serveIdx] = "started"]
    /\ listeners' = Append(listeners, serveIdx)
    /\ serveIdx' = serveIdx + 1
    /\ UNCHANGED <<cfg, served, cur, err, cvars, kvars, rvars, hvars>>
    /\ set_fields(serveIdx)
    /\ UNCHANGED <<attrList, boundTo, connectedTo>>

\* One iteration of "for singleProxyAttr in proxyAttrList": construct the
\* TCPProxyServer, set() it and start() its thread.
ServeStart ==
    /\ ~served
    /\ serveIdx <= cfg.routes
    /\ running' = [running EXCEPT ![serveIdx] = set_running]
    /\ lpc' = [lpc EXCEPT ![serveIdx] = "started"]
    /\ listeners' = Append(listeners, serveIdx)
    /\ serveIdx' = serveIdx + 1
    /\ UNCHANGED <<cfg, served, cur, err, cvars, kvars, rvars, hvars>>
    /\ set_fields(serveIdx)
    /\ UNCHANGED <<attrList, boundTo, connectedTo>>

\* The for loop is exhausted: serve() returns (line 334).
ServeReturn ==
    /\ ~served
    /\ serveIdx > cfg.routes
    /\ served' = TRUE
    /\ UNCHANGED <<cfg, serveIdx, listeners, lvars, cvars, kvars, rvars, hvars>>
    /\ UNCHANGED avars

\* ---- TCPProxyServer.shutDown (lines 259-261) -----------------------------

\* Mutant of shutDown: _running is one flag shared by all listeners (a class
\* attribute), so stopping one stops all.
shutDown_all(l) ==
    /\ lpc[l] # "none"
    /\ cfg.stops
    /\ running' = [m \in Routes |-> FALSE]
    /\ stopped' = [stopped EXCEPT ![l] = TRUE]
    /\ stopAt' = [stopAt EXCEPT ![l] =
                    IF stopAt[l] = "none" /\ lpc[l] \in LoopPcs
                    THEN (IF lpc[l] = "accept" THEN "accept" ELSE "loop")
                    ELSE stopAt[l]]
    /\ UNCHANGED <<lpc, cur, err, svars, cvars, kvars, rvars,
                   afterAcc, nAcc, nAtt, nOK, nRel, bornStopped, sendsAfter>>
    /\ UNCHANGED avars

shutDown(l) ==
    /\ lpc[l] # "none"
    /\ cfg.stops
    /\ running' = [running EXCEPT ![l] = FALSE]
    /\ stopped' = [stopped EXCEPT ![l] = TRUE]
    /\ stopAt' = [stopAt EXCEPT ![l] =
                    IF stopAt[l] = "none" /\ lpc[l] \in LoopPcs
                    THEN (IF lpc[l] = "accept" THEN "accept" ELSE "loop")
                    ELSE stopAt[l]]
    /\ UNCHANGED <<lpc, cur, err, svars, cvars, kvars, rvars,
                   afterAcc, nAcc, nAtt, nOK, nRel, bornStopped, sendsAfter>>
    /\ UNCHANGED avars

\* ---- TCPProxyServer.serveConnection (lines 266-288) ----------------------

\* Where the listener thread goes after the except clause (lines 282-288):
\* it logs, sleeps 0.25 s, runs the finally clause and returns from run().
AfterExcept == "done"

\* line 267: self._running = True
Run(l) ==
    /\ lpc[l] = "started"
    /\ running' = [running EXCEPT ![l] = TRUE]
    /\ lpc' = [lpc EXCEPT ![l] = "bind"]
    /\ UNCHANGED <<cur, err, svars, cvars, kvars, rvars, hvars>>
    /\ UNCHANGED avars

\* The call at the listener's pc raised: control goes to "except:" (line 282).
Raise(l, what) ==
    /\ err' = [err EXCEPT ![l] = what]
    /\ lpc' = [lpc EXCEPT ![l] = "except"]

\* lines 272-274: socket(), setsockopt(), bind() return
BindOK(l) ==
    /\ lpc[l] = "bind"
    /\ lpc' = [lpc EXCEPT ![l] = "outer"]
    /\ UNCHANGED <<running, cur, err, svars, cvars, kvars, rvars, hvars>>
    /\ boundTo' = [boundTo EXCEPT ![l] = <<bindAddress[l], listenPort[l]>>]
    /\ UNCHANGED <<attrList, bindAddress, listenPort, destAddress, destPort, connectedTo>>

\* lines 272-274: one of them raises (address in use, no such interface, ...)
BindFail(l) ==
    /\ lpc[l] = "bind"
    /\ cfg.faults
    /\ Raise(l, "bind")
    /\ UNCHANGED <<running, cur, svars, cvars, kvars, rvars, hvars>>
    /\ boundTo' = [boundTo EXCEPT ![l] = <<bindAddress[l], listenPort[l]>>]
    /\ UNCHANGED <<attrList, bindAddress, listenPort, destAddress, destPort, connectedTo>>

\* line 275: outer "while self._running:"; when false, finally clause and return
OuterCheck(l) ==
    /\ lpc[l] = "outer"
    /\ lpc' = [lpc EXCEPT ![l] = IF running[l] THEN "listen" ELSE "done"]
    /\ UNCHANGED <<running, cur, err, svars, cvars, kvars, rvars, hvars>>
    /\ UNCHANGED avars

\* line 276: dock_socket.listen(self._backLog) returns
ListenOK(l) ==
    /\ lpc[l] = "listen"
    /\ lpc' = [lpc EXCEPT ![l] = "inner"]
    /\ UNCHANGED <<running, cur, err, svars, cvars, kvars, rvars, hvars>>
    /\ UNCHANGED avars

\* line 276: listen() raises
ListenFail(l) ==
    /\ lpc[l] = "listen"
    /\ cfg.faults
    /\ Raise(l, "listen")
    /\ UNCHANGED <<running, cur, svars, cvars, kvars, rvars, hvars>>
    /\ UNCHANGED avars

\* Mutant of InnerCheck: the inner loop is "while True:", the flag is not
\* tested before accept.
InnerCheck_noTest(l) ==
    /\ lpc[l] = "inner"
    /\ lpc' = [lpc EXCEPT ![l] = "accept"]
    /\ UNCHANGED <<running, cur, err, svars, cvars, kvars, rvars, hvars>>
    /\ UNCHANGED avars

\* line 277: inner "while self._running:"
InnerCheck(l) ==
    /\ lpc[l] = "inner"
    /\ lpc' = [lpc EXCEPT ![l] = IF running[l] THEN "accept" ELSE "outer"]
    /\ UNCHANGED <<running, cur, err, svars, cvars, kvars, rvars, hvars>>
    /\ UNCHANGED avars

\* Mutant of AcceptOK: the accepted client is handed to another thread and
\* the listener goes straight back to its loop test.
AcceptOK_async(l) ==
    /\ lpc[l] = "accept"
    /\ nConns < cfg.conns
    /\ nConns' = nConns + 1
    /\ connL' = [connL EXCEPT ![nConns + 1] = l]
    /\ st' = [st EXCEPT ![client_socket(nConns + 1)] = "open"]
    /\ cur' = [cur EXCEPT ![l] = nConns + 1]
    /\ lpc' = [lpc EXCEPT ![l] = "inner"]
    /\ nAcc' = [nAcc EXCEPT ![l] = @ + 1]
    /\ afterAcc' = [afterAcc EXCEPT ![l] = IF stopAt[l] # "none" THEN @ + 1 ELSE @]
    /\ UNCHANGED <<running, err, svars, sent, rxlog, tx, nSent, rvars,
                   stopped, stopAt, nAtt, nOK, nRel, bornStopped, sendsAfter>>
    /\ UNCHANGED avars

\* lines 278-279: client_socket = dock_socket.accept()[0]; a client connects
\* and the server socket object is created
AcceptOK(l) ==
    /\ lpc[l] = "accept"
    /\ nConns < cfg.conns
    /\ nConns' = nConns + 1
    /\ connL' = [connL EXCEPT ![nConns + 1] = l]
    /\ st' = [st EXCEPT ![client_socket(nConns + 1)] = "open"]
    /\ cur' = [cur EXCEPT ![l] = nConns + 1]
    /\ lpc' = [lpc EXCEPT ![l] = "connect"]
    /\ nAcc' = [nAcc EXCEPT ![l] = @ + 1]
    /\ afterAcc' = [afterAcc EXCEPT ![l] = IF stopAt[l] # "none" THEN @ + 1 ELSE @]
    /\ UNCHANGED <<running, err, svars, sent, rxlog, tx, nSent, rvars,
                   stopped, stopAt, nAtt, nOK, nRel, bornStopped, sendsAfter>>
    /\ UNCHANGED avars

\* line 278: accept() raises
AcceptFail(l) ==
    /\ lpc[l] = "accept"
    /\ cfg.faults
    /\ Raise(l, "accept")
    /\ UNCHANGED <<running, cur, svars, cvars, kvars, rvars, hvars>>
    /\ UNCHANGED avars

\* ---- TCPProxyServer._handle_socket (lines 290-298) -----------------------

\* line 291: server_socket.connect() returns
ConnectOK(l) ==
    /\ lpc[l] = "connect"
    /\ st' = [st EXCEPT ![server_socket(cur[l])] = "open"]
    /\ lpc' = [lpc EXCEPT ![l] = "startA"]
    /\ nAtt' = [nAtt EXCEPT ![l] = @ + 1]
    /\ nOK' = [nOK EXCEPT ![l] = @ + 1]
    /\ UNCHANGED <<running, cur, err, svars, cvars, sent, rxlog, tx, nSent, rvars,
                   stopped, stopAt, afterAcc, nAcc, nRel, bornStopped, sendsAfter>>
    /\ connectedTo' = [connectedTo EXCEPT ![l] = <<destAddress[l], destPort[l]>>]
    /\ UNCHANGED <<attrList, bindAddress, listenPort, destAddress, destPort, boundTo>>

\* Mutant of ConnectFail: the exception of connect() is swallowed and
\* _handle_socket goes on to start the relays.
ConnectFail_swallowed(l) ==
    /\ lpc[l] = "connect"
    /\ cfg.faults
    /\ lpc' = [lpc EXCEPT ![l] = "startA"]
    /\ nAtt' = [nAtt EXCEPT ![l] = @ + 1]
    /\ UNCHANGED <<running, cur, err, svars, cvars, kvars, rvars,
                   stopped, stopAt, afterAcc, nAcc, nOK, nRel, bornStopped, sendsAfter>>
    /\ connectedTo' = [connectedTo EXCEPT ![l] = <<destAddress[l], destPort[l]>>]
    /\ UNCHANGED <<attrList, bindAddress, listenPort, destAddress, destPort, boundTo>>

\* line 291: server_socket.connect() raises; nothing in _handle_socket catches
\* it, so it reaches the except clause of serveConnection
ConnectFail(l) ==
    /\ lpc[l] = "connect"
    /\ cfg.faults
    /\ Raise(l, "connect")
    /\ nAtt' = [nAtt EXCEPT ![l] = @ + 1]
    /\ UNCHANGED <<running, cur, svars, cvars, kvars, rvars,
                   stopped, stopAt, afterAcc, nAcc, nOK, nRel, bornStopped, sendsAfter>>
    /\ connectedTo' = [connectedTo EXCEPT ![l] = <<destAddress[l], destPort[l]>>]
    /\ UNCHANGED <<attrList, bindAddress, listenPort, destAddress, destPort, boundTo>>

\* args of threadA (line 292) and threadB (line 295): <<source, destination>>
threadA_args(c) == <<client_socket(c), server_socket(c)>>

\* Mutant of threadB_args: the client socket is kept in one place shared by
\* all connections, so threadB writes to the first client.
threadB_args_shared(c) == <<server_socket(c), client_socket(1)>>

threadB_args(c) == <<server_socket(c), client_socket(c)>>

\* Thread(target=self._forward, args=...).start()
StartRelay(l, r, args) ==
    /\ rpc' = [rpc EXCEPT ![r] = "check"]
    /\ rsrc' = [rsrc EXCEPT ![r] = args[1]]
    /\ rdst' = [rdst EXCEPT ![r] = args[2]]
    /\ nRel' = [nRel EXCEPT ![l] = @ + 1]
    /\ bornStopped' = [bornStopped EXCEPT ![r] = stopped[l]]
    /\ UNCHANGED <<rdata, rwhy>>

\* lines 292-293
StartA(l) ==
    /\ lpc[l] = "startA"
    /\ StartRelay(l, <<cur[l], "A">>, threadA_args(cur[l]))
    /\ lpc' = [lpc EXCEPT ![l] = "startB"]
    /\ UNCHANGED <<running, cur, err, svars, cvars, kvars,
                   stopped, stopAt, afterAcc, nAcc, nAtt, nOK, sendsAfter>>
    /\ UNCHANGED avars

\* lines 295-298, then back to the inner while of serveConnection
StartB(l) ==
    /\ lpc[l] = "startB"
    /\ StartRelay(l, <<cur[l], "B">>, threadB_args(cur[l]))
    /\ lpc' = [lpc EXCEPT ![l] = "inner"]
    /\ cur' = [cur EXCEPT ![l] = 0]
    /\ UNCHANGED <<running, err, svars, cvars, kvars,
                   stopped, stopAt, afterAcc, nAcc, nAtt, nOK, sendsAfter>>
    /\ UNCHANGED avars

\* Mutant of Except: the finally clause clears the flag.
Except_clears(l) ==
    /\ lpc[l] = "except"
    /\ lpc' = [lpc EXCEPT ![l] = AfterExcept]
    /\ running' = [running EXCEPT ![l] = FALSE]
    /\ UNCHANGED <<cur, err, svars, cvars, kvars, rvars, hvars>>
    /\ UNCHANGED avars

\* lines 282-288: errorException(), sleep(0.25), finally clause
Except(l) ==
    /\ lpc[l] = "except"
    /\ lpc' = [lpc EXCEPT ![l] = AfterExcept]
    /\ UNCHANGED <<running, cur, err, svars, cvars, kvars, rvars, hvars>>
    /\ UNCHANGED avars

\* ---- TCPProxyServer._forward (lines 300-311) -----------------------------

\* The listener whose _running the relay reads (self of _forward)
Owner(r) == connL[r[1]]

\* Bytes of socket s that have arrived and were not yet returned by recv()
Avail(s) == sent[s] - Len(rxlog[s])

\* Lengths source.recv(rxBufferSize) can return now: 1..rxBufferSize bytes of
\* what has arrived; 0 at end of stream; no value while it blocks
RecvSizes(s) ==
    IF Avail(s) > 0 THEN 1..Min(Avail(s), rxBufferSize)
    ELSE IF st[s] = "eof" THEN {0}
    ELSE {}

\* The next k bytes of the stream arriving on socket s
Recv(s, k) == [i \in 1..k |-> <<s, Len(rxlog[s]) + i>>]

\* Mutant of Sendall: the first byte of every chunk is lost.
Sendall_dropFirst(buf, data) == buf \o Tail(data)

\* destination.sendall(data) on a healthy socket: the bytes on the wire after it
Sendall(buf, data) == buf \o data

\* Mutant of AfterRecv: a zero-length read ends the relay.
AfterRecv_eofStops(data) == IF data # <<>> THEN "send" ELSE "done"

\* Where the relay goes after recv() returned data (lines 308-309: "if data:")
AfterRecv(data) == IF data # <<>> THEN "send" ELSE "check"

\* Where the relay goes when "while self._running" is evaluated (line 306)
AfterCheck(flag) == IF flag THEN "recv" ELSE "done"

\* line 306: while self._running
FwdCheck(r) ==
    /\ rpc[r] = "check"
    /\ rpc' = [rpc EXCEPT ![r] = AfterCheck(running[Owner(r)])]
    /\ rwhy' = [rwhy EXCEPT ![r] = IF rpc'[r] = "done" THEN "flag" ELSE @]
    /\ UNCHANGED <<rsrc, rdst, rdata, lvars, svars, cvars, kvars, hvars>>
    /\ UNCHANGED avars

\* line 307: data = source.recv(rxBufferSize) returns
FwdRecv(r) ==
    /\ rpc[r] = "recv"
    /\ st[rsrc[r]] # "reset"
    /\ \E k \in RecvSizes(rsrc[r]) :
          /\ rdata' = [rdata EXCEPT ![r] = Recv(rsrc[r], k)]
          /\ rxlog' = [rxlog EXCEPT ![rsrc[r]] = @ \o Recv(rsrc[r], k)]
          /\ rpc' = [rpc EXCEPT ![r] = AfterRecv(Recv(rsrc[r], k))]
    /\ UNCHANGED <<rsrc, rdst, rwhy, lvars, svars, cvars, st, sent, tx, nSent, hvars>>
    /\ UNCHANGED avars

\* Mutant of FwdRecvRaise: the except clause tears the connection down by
\* closing the destination socket.
FwdRecvRaise_closes(r) ==
    /\ rpc[r] = "recv"
    /\ st[rsrc[r]] = "reset"
    /\ rpc' = [rpc EXCEPT ![r] = "done"]
    /\ rwhy' = [rwhy EXCEPT ![r] = "raise"]
    /\ st' = [st EXCEPT ![rdst[r]] = "reset"]
    /\ UNCHANGED <<rsrc, rdst, rdata, lvars, svars, cvars, sent, rxlog, tx, nSent, hvars>>
    /\ UNCHANGED avars

\* line 307: recv() raises (connection reset); lines 310-311
FwdRecvRaise(r) ==
    /\ rpc[r] = "recv"
    /\ st[rsrc[r]] = "reset"
    /\ rpc' = [rpc EXCEPT ![r] = "done"]
    /\ rwhy' = [rwhy EXCEPT ![r] = "raise"]
    /\ UNCHANGED <<rsrc, rdst, rdata, lvars, svars, cvars, kvars, hvars>>
    /\ UNCHANGED avars

\* line 309: destination.sendall(data) returns
FwdSend(r) ==
    /\ rpc[r] = "send"
    /\ st[rdst[r]] \in {"open", "eof"}
    /\ tx' = [tx EXCEPT ![rdst[r]] = Sendall(@, rdata[r])]
    /\ rpc' = [rpc EXCEPT ![r] = "check"]
    /\ sendsAfter' = [sendsAfter EXCEPT ![r] = IF stopped[Owner(r)] THEN @ + 1 ELSE @]
    /\ UNCHANGED <<rsrc, rdst, rdata, rwhy, lvars, svars, cvars, st, sent, rxlog, nSent,
                   stopped, stopAt, afterAcc, nAcc, nAtt, nOK, nRel, bornStopped>>
    /\ UNCHANGED avars

\* line 309: sendall() raises after writing j bytes, j < len(data); lines 310-311
FwdSendRaise(r) ==
    /\ rpc[r] = "send"
    /\ st[rdst[r]] = "reset"
    /\ \E j \in 0..(Len(rdata[r]) - 1) :
          /\ tx' = [tx EXCEPT ![rdst[r]] = @ \o SubSeq(rdata[r], 1, j)]
          /\ sendsAfter' = [sendsAfter EXCEPT ![r] =
                              IF stopped[Owner(r)] /\ j > 0 THEN @ + 1 ELSE @]
    /\ rpc' = [rpc EXCEPT ![r] = "done"]
    /\ rwhy' = [rwhy EXCEPT ![r] = "raise"]
    /\ UNCHANGED <<rsrc, rdst, rdata, lvars, svars, cvars, st, sent, rxlog, nSent,
                   stopped, stopAt, afterAcc, nAcc, nAtt, nOK, nRel, bornStopped>>
    /\ UNCHANGED avars

\* ---- the remote peers of the sockets -------------------------------------

\* The peer of socket s sends one more byte
PeerSend(s) ==
    /\ st[s] = "open"
    /\ nSent < cfg.bytes
    /\ sent' = [sent EXCEPT ![s] = @ + 1]
    /\ nSent' = nSent + 1
    /\ UNCHANGED <<st, rxlog, tx, lvars, svars, cvars, rvars, hvars>>
    /\ UNCHANGED avars

\* The peer of socket s closes its sending side (FIN)
PeerClose(s) ==
    /\ st[s] = "open"
    /\ cfg.hangups
    /\ st' = [st EXCEPT ![s] = "eof"]
    /\ UNCHANGED <<sent, rxlog, tx, nSent, lvars, svars, cvars, rvars, hvars>>
    /\ UNCHANGED avars

\* The peer of socket s aborts the connection (RST)
PeerReset(s) ==
    /\ st[s] \in {"open", "eof"}
    /\ cfg.hangups
    /\ st' = [st EXCEPT ![s] = "reset"]
    /\ UNCHANGED <<sent, rxlog, tx, nSent, lvars, svars, cvars, rvars, hvars>>
    /\ UNCHANGED avars

\* ---- specification -------------------------------------------------------
Next ==
    \/ ServeStart
    \/ ServeReturn
    \/ \E l \in Routes : shutDown(l)
    \/ \E l \in Routes : Run(l)
    \/ \E l \in Routes : BindOK(l)
    \/ \E l \in Routes : BindFail(l)
    \/ \E l \in Routes : OuterCheck(l)
    \/ \E l \in Routes : ListenOK(l)
    \/ \E l \in Routes : ListenFail(l)
    \/ \E l \in Routes : InnerCheck(l)
    \/ \E l \in Routes : AcceptOK(l)
    \/ \E l \in Routes : AcceptFail(l)
    \/ \E l \in Routes : ConnectOK(l)
    \/ \E l \in Routes : ConnectFail(l)
    \/ \E l \in Routes : StartA(l)
    \/ \E l \in Routes : StartB(l)
    \/ \E l \in Routes : Except(l)
    \/ \E r \in Relays : FwdCheck(r)
    \/ \E r \in Relays : FwdRecv(r)
    \/ \E r \in Relays : FwdRecvRaise(r)
    \/ \E r \in Relays : FwdSend(r)
    \/ \E r \in Relays : FwdSendRaise(r)
    \/ \E s \in Sock : PeerSend(s)
    \/ \E s \in Sock : PeerClose(s)
    \/ \E s \in Sock : PeerReset(s)

Spec == Init /\ [][Next]_vars

\* ---- the addresses a listener uses ---------------------------------------

\* Route lists of one route with every address string and port
AddrInputs ==
    { [l \in Routes |-> IF l = 1 THEN <<b, lp, d, dp>> ELSE proxyAttrList[l]] :
        b \in Strs, lp \in Ports, d \in Strs, dp \in Ports }

\* One route, one client, nothing fails
InitAddr ==
    /\ cfg = [routes |-> 1, conns |-> 1, bytes |-> 0,
              faults |-> FALSE, hangups |-> FALSE, stops |-> FALSE]
    /\ attrList \in AddrInputs
    /\ InitRest

\* serve() and the listener up to the connect of its first client
NextAddr ==
    \/ ServeStart
    \/ ServeReturn
    \/ \E l \in Routes : Run(l)
    \/ \E l \in Routes : BindOK(l)
    \/ \E l \in Routes : OuterCheck(l)
    \/ \E l \in Routes : ListenOK(l)
    \/ \E l \in Routes : InnerCheck(l)
    \/ \E l \in Routes : AcceptOK(l)
    \/ \E l \in Routes : ConnectOK(l)

SpecAddr == InitAddr /\ [][NextAddr]_vars


\* ==== properties ==========================================================

\* The socket at the other end of the proxy for socket s: the client socket
\* and the server socket of one accept
Pair(s) == IF s[2] = "client" THEN server_socket(s[1]) ELSE client_socket(s[1])

\* C1: for every relay, the bytes written to its destination socket are a
\* prefix of the bytes read from its source socket, and whenever the relay is
\* about to test the flag or to read (or has left on the flag) every chunk
\* read so far has been written in full.
C1_ForwardIsPrefix ==
    \A r \in Relays :
        rpc[r] # "none" =>
            /\ IsPrefix(tx[rdst[r]], rxlog[rsrc[r]])
            /\ \A i \in 1..Len(rxlog[rsrc[r]]) : rxlog[rsrc[r]][i] = <<rsrc[r], i>>
            /\ (rpc[r] \in {"check", "recv"} \/ rwhy[r] = "flag")
                  => tx[rdst[r]] = rxlog[rsrc[r]]

\* C1 witness: a relay has forwarded two bytes and is back at its loop test
C1_Witness ==
    \E r \in Relays :
        /\ rpc[r] = "check"
        /\ Len(tx[rdst[r]]) >= 2
        /\ tx[rdst[r]] = rxlog[rsrc[r]]

\* C2 as claimed: after a failed outbound connect the listener's accept loop
\* is still running (the listener thread has not returned).
C2_AcceptLoopSurvivesConnectFailure ==
    \A l \in Routes : err[l] = "connect" => lpc[l] # "done"

\* C3 as claimed: a listener whose running flag is true never terminates
\* because bind, listen or accept raised.
C3_ListenerRetriesAfterError ==
    \A l \in Routes :
        (lpc[l] = "done" /\ running[l]) => err[l] \notin {"bind", "listen", "accept"}

C5_NoCrossTalk ==
    /\ \A s \in Sock : \A i \in 1..Len(tx[s]) : tx[s][i][1] = Pair(s)
    /\ \A r \in Relays :
          rpc[r] # "none" =>
             /\ rsrc[r][1] = r[1]
             /\ rdst[r] = Pair(rsrc[r])
             /\ rsrc[r] = (IF r[2] = "A" THEN client_socket(r[1]) ELSE server_socket(r[1]))

\* C5 witness: two connections have both carried data
C5_Witness ==
    \E c, d \in Conns :
        /\ c # d
        /\ \E s \in {client_socket(c), server_socket(c)} : tx[s] # <<>>
        /\ \E s \in {client_socket(d), server_socket(d)} : tx[s] # <<>>

\* C6: a step in which a listener's running flag is cleared or a listener
\* takes an exception leaves every other listener's running flag, position
\* and relays unchanged.
C6_ListenersIndependent ==
    [][\A l \in Routes :
          ((running[l] /\ ~running'[l]) \/ err'[l] # err[l]) =>
              \A m \in Routes \ {l} :
                  /\ running'[m] = running[m]
                  /\ lpc'[m] = lpc[m]
                  /\ \A r \in Relays : connL[r[1]] = m => rpc'[r] = rpc[r]]_vars

\* C6 witness: one listener has been stopped and has left its loop while
\* another is accepting with its flag set and a relay of its own reading
C6_Witness ==
    \E l, m \in Routes :
        /\ l # m
        /\ stopped[l] /\ lpc[l] = "done"
        /\ running[m] /\ lpc[m] = "accept"
        /\ \E r \in Relays : connL[r[1]] = m /\ rpc[r] = "recv"

\* C7: serve() starts the listeners of the routes in list order, one per
\* route; until it has returned its next step is always possible, whatever
\* the listeners do; when it has returned every route has its listener.
C7_ServeStartsAll ==
    /\ listeners = [i \in 1..(serveIdx - 1) |-> i]
    /\ \A l \in Routes : lpc[l] # "none" <=> l < serveIdx
    /\ ~served => ENABLED (ServeStart \/ ServeReturn)
    /\ served => Len(listeners) = cfg.routes

\* C7 witness: serve() has returned, the first route failed to bind and the
\* listener of the route after it is accepting
C7_Witness ==
    /\ served
    /\ cfg.routes >= 2
    /\ err[1] = "bind"
    /\ lpc[2] = "accept"

\* C8 as claimed: at all times the relays started are twice the successful
\* connects.
C8_RelaysAlwaysTwiceConnects ==
    \A l \in Routes : nRel[l] = 2 * nOK[l]

\* Relays of the connection being handled that are not started yet
PendingStarts(l) ==
    IF lpc[l] = "startA" THEN 2 ELSE IF lpc[l] = "startB" THEN 1 ELSE 0

\* C8 amended: every accept is followed by one connect attempt, made before
\* the next accept; relays exist only for connections whose connect
\* succeeded; the relays started are twice the successful connects except
\* between the connect's return and the start of the second relay, where
\* they are short by the relays still to be started.
C8_RelaysFollowConnect ==
    /\ \A l \in Routes :
          /\ nAtt[l] = nAcc[l] - (IF lpc[l] = "connect" THEN 1 ELSE 0)
          /\ nOK[l] <= nAtt[l]
          /\ nRel[l] = 2 * nOK[l] - PendingStarts(l)
          /\ nRel[l] = Cardinality({r \in Relays : rpc[r] # "none" /\ connL[r[1]] = l})
    /\ \A r \in Relays : rpc[r] # "none" => st[server_socket(r[1])] # "none"

\* C8 witness: a listener has connected two clients, started both relays of
\* each and is back at its loop test
C8_Witness ==
    \E l \in Routes :
        /\ nOK[l] = 2
        /\ nRel[l] = 4
        /\ lpc[l] = "inner"

\* C9: a relay leaves its loop only at the flag test with the flag false or
\* at a read or write that raises; a zero-length read writes nothing and takes
\* the relay back to the flag test.
C9_RelayExits ==
    [][\A r \in Relays :
          /\ (rpc[r] # "done" /\ rpc'[r] = "done") =>
                \/ rpc[r] = "check" /\ ~running[Owner(r)]
                \/ rpc[r] = "recv" /\ st[rsrc[r]] = "reset"
                \/ rpc[r] = "send" /\ st[rdst[r]] = "reset"
          /\ (rpc[r] = "recv" /\ rpc'[r] # "recv"
                /\ st[rsrc[r]] = "eof" /\ Avail(rsrc[r]) = 0) =>
                /\ rpc'[r] = "check"
                /\ rdata'[r] = <<>>
                /\ tx' = tx]_vars

\* C9 witness: a relay that had read data got a zero-length read from a
\* source at end of stream and is back at its flag test
C9_Witness ==
    \E r \in Relays :
        /\ rpc[r] = "check"
        /\ st[rsrc[r]] = "eof"
        /\ rxlog[rsrc[r]] # <<>>
        /\ rdata[r] = <<>>

\* C10 as claimed: after shutDown() a relay forwards at most one further
\* chunk, and a relay started after shutDown() forwards nothing.
C10_AtMostOneChunkAfterStop ==
    \A r \in Relays :
        /\ sendsAfter[r] <= 1
        /\ bornStopped[r] => sendsAfter[r] = 0


C12_StopIsSticky ==
    \A l \in Routes : stopped[l] => ~running[l]

\* C13: on every listener each accept is followed by its connect before the
\* next accept: the accepts exceed the connects that returned or raised by one
\* exactly while the listener is in connect, and by nothing otherwise; while
\* it is in connect it cannot accept, and a relay of an earlier connection
\* that holds a chunk can still write it.
C13_AcceptConnectAlternate ==
    /\ \A l \in Routes :
          /\ nAcc[l] - nAtt[l] = (IF lpc[l] = "connect" THEN 1 ELSE 0)
          /\ lpc[l] = "connect" => ~ENABLED AcceptOK(l)
          /\ lpc[l] = "connect" => st[server_socket(cur[l])] = "none"
    /\ \A r \in Relays :
          (rpc[r] = "send" /\ st[rdst[r]] \in {"open", "eof"}) => ENABLED FwdSend(r)

\* C13 witness: a listener is in the connect of its second client while a
\* relay of its first connection holds a chunk to forward
C13_Witness ==
    \E l \in Routes : \E r \in Relays :
        /\ lpc[l] = "connect"
        /\ nAcc[l] = 2
        /\ Owner(r) = l
        /\ r[1] # cur[l]
        /\ rpc[r] = "send"

\* C14: after line 267 the running flag of a listener is false only if
\* shutDown() was called on it, also when the listener thread has left
\* serveConnection on an exception; and a relay leaves on the flag only after
\* a shutDown() of its listener.
C14_OnlyShutDownClearsFlag ==
    /\ \A l \in Routes :
          (lpc[l] \notin {"none", "started"} /\ ~stopped[l]) => running[l]
    /\ \A r \in Relays : rwhy[r] = "flag" => stopped[Owner(r)]

\* C14 witness: the listener thread has ended on an exception, its flag is
\* still set and a relay of a connection it established holds a chunk to
\* forward
C14_Witness ==
    \E l \in Routes : \E r \in Relays :
        /\ lpc[l] = "done"
        /\ err[l] # "none"
        /\ running[l]
        /\ Owner(r) = l
        /\ rpc[r] = "send"


\* The part of an address string before its first slash, the whole string
\* when it has none
BeforeSlash(a) ==
    IF \E i \in 1..Len(a) : a[i] = "/"
    THEN SubSeq(a, 1, (CHOOSE i \in 1..Len(a) : a[i] = "/" /\ \A j \in 1..(i - 1) : a[j] # "/") - 1)
    ELSE a

\* C15 as claimed: the address a listener binds to and the address it
\* connects to are the configured addresses cut before their first slash, and
\* the ports are the configured ports.
C15_AddressesStripped ==
    \A l \in Routes :
        /\ boundTo[l] # NoAddr =>
              boundTo[l] = <<BeforeSlash(attrList[l][1]), attrList[l][2]>>
        /\ connectedTo[l] # NoAddr =>
              connectedTo[l] = <<BeforeSlash(attrList[l][3]), attrList[l][4]>>

====
